---- MODULE Spec2Model ----
(***************************************************************************)
(* A model of camcann/linear.py: the LinearECFPModel pipeline              *)
(* (remove_low_freq_subgraphs, elastic_feature_select,                     *)
(* ridge_model_train_test, predict) and the RidgeResults record.           *)
(*                                                                         *)
(* A pipeline instance is a record of its attributes.  Every method is an  *)
(* operator from the instance (and the call's arguments) to the outcome    *)
(* of the call: the instance afterwards, the exception raised (if any) and *)
(* the value returned.  Attributes that Python creates on first assignment *)
(* (selector, model, test_predictions, results) are optional values.       *)
(*                                                                         *)
(* Numbers are integers.  The scikit-learn estimators are supplied         *)
(* primitives; each is modelled as a deterministic function of exactly the *)
(* arguments the code passes to it, with integer stand-ins for the fitted  *)
(* numbers (stated at each definition).                                    *)
(***************************************************************************)
EXTENDS Integers, Sequences, FiniteSets, TLC

VARIABLES self, ret, calls, twin, twinRet

vars == <<self, ret, calls, twin, twinRet>>

-----------------------------------------------------------------------------
(* Bounds of the model. *)

\* number of samples (rows) of the training matrix
NRows == 2

\* number of features (columns) of the training matrix
NCols == 2

\* largest fingerprint count in a cell
MaxCount == 1

\* largest integer threshold passed to remove_low_freq_subgraphs
MaxThreshold == 2

-----------------------------------------------------------------------------
(* Optional values, vectors and matrices. *)

None == <<>>

Some(v) == <<v>>

Get(o) == o[1]

Abs(x) == IF x < 0 THEN -x ELSE x

RECURSIVE SumSeq(_)
SumSeq(s) == IF Len(s) = 0 THEN 0 ELSE Head(s) + SumSeq(Tail(s))

\* A matrix is a non-empty sequence of rows of equal length.
NumRows(m) == Len(m)

NumCols(m) == Len(m[1])

Column(m, j) == [i \in 1..NumRows(m) |-> m[i][j]]

\* the number of TRUE entries of a boolean vector
CountTrue(b) == Cardinality({j \in 1..Len(b) : b[j]})

\* the indices of the TRUE entries of a boolean vector, ascending
RECURSIVE TrueIndices(_)
TrueIndices(b) ==
    IF Len(b) = 0 THEN <<>>
    ELSE LET front == TrueIndices(SubSeq(b, 1, Len(b) - 1))
         IN  IF b[Len(b)] THEN Append(front, Len(b)) ELSE front

\* the position of index j among the TRUE entries of b (j itself TRUE in b)
Rank(b, j) == Cardinality({k \in 1..j : b[k]})

-----------------------------------------------------------------------------
(* The supplied primitives (scikit-learn), as functions of their arguments. *)

\* StandardScaler before fit
UnfittedScaler == [fitted |-> FALSE, n_features_in_ |-> 0, n_samples_seen_ |-> 0,
                   sum_ |-> <<>>, var_ |-> <<>>]

\* StandardScaler.fit(X): per-feature statistics of X.  sum_[j] is
\* n * mean_[j]; var_[j] is n^2 * (the variance of column j), so that
\* scale_[j]^2 = var_[j] / n^2, and a constant column gets scale_ 1
\* (scikit-learn replaces a zero scale by 1).
StandardScalerFit(X) ==
    LET n == NumRows(X)
        sq(j) == SumSeq([i \in 1..n |-> X[i][j] * X[i][j]])
        v(j) == n * sq(j) - SumSeq(Column(X, j)) * SumSeq(Column(X, j))
    IN  [fitted |-> TRUE, n_features_in_ |-> NumCols(X), n_samples_seen_ |-> n,
         sum_ |-> [j \in 1..NumCols(X) |-> SumSeq(Column(X, j))],
         var_ |-> [j \in 1..NumCols(X) |-> IF v(j) = 0 THEN n * n ELSE v(j)]]

\* The coefficient a linear fit gives column j of X against y: the stand-in
\* is the covariance of the column with the targets, times n^2.
Covariance(X, y, j) ==
    LET n == NumRows(X)
    IN  n * SumSeq([i \in 1..n |-> X[i][j] * y[i]])
          - SumSeq(Column(X, j)) * SumSeq(y)

\* ElasticNetCV before fit
UnfittedEncv == [fitted |-> FALSE, coef_ |-> <<>>]

\* ElasticNetCV.fit(X, y) behind the scaler: one coefficient per column of X,
\* a function of X and y alone.
ElasticNetCVFit(X, y) ==
    [fitted |-> TRUE, coef_ |-> [j \in 1..NumCols(X) |-> Covariance(X, y, j)]]

\* SelectFromModel(estimator, threshold="mean", prefit=True).get_support():
\* the importance of a feature is |coef_|, and a feature is kept iff its
\* importance is at least the mean importance.
SelectFromModelSupport(estimator) ==
    LET coef == estimator.coef_
        total == SumSeq([j \in 1..Len(coef) |-> Abs(coef[j])])
    IN  [j \in 1..Len(coef) |-> Len(coef) * Abs(coef[j]) >= total]

\* SelectFromModel.transform(X): the columns of X the support keeps
SelectorTransform(support, X) ==
    LET idx == TrueIndices(support)
    IN  [i \in 1..NumRows(X) |-> [r \in 1..Len(idx) |-> X[i][idx[r]]]]

\* SelectorMixin.inverse_transform(v): v put back at the kept positions of
\* the original feature space, zeros at the removed ones
SelectorInverseTransform(support, v) ==
    [j \in 1..Len(support) |-> IF support[j] THEN v[Rank(support, j)] ELSE 0]

\* RidgeCV before fit
UnfittedRidge == [fitted |-> FALSE, coef_ |-> <<>>,
                  alpha_ |-> "unset", best_score_ |-> "unset"]

\* RidgeCV(scoring="neg_root_mean_squared_error").fit(X, y) on the selected
\* columns: one coefficient per selected column; alpha_ and best_score_ are
\* opaque outputs of the cross-validation.
RidgeCVFit(X, y) ==
    [fitted |-> TRUE, coef_ |-> [r \in 1..NumCols(X) |-> Covariance(X, y, r)],
     alpha_ |-> "alpha_", best_score_ |-> "best_score_"]

\* What Pipeline(scaler, selector, ridge).predict(X) computes once every step
\* is fitted: centre with the scaler's statistics, keep the supported
\* columns, apply the ridge coefficients (one prediction per row of X).
PipelineDecision(scaler, support, ridge, X) ==
    LET idx == TrueIndices(support)
        n == scaler.n_samples_seen_
    IN  [i \in 1..NumRows(X) |->
            SumSeq([r \in 1..Len(idx) |->
                ridge.coef_[r] * (n * X[i][idx[r]] - scaler.sum_[idx[r]])])]

\* mean_squared_error(y_true, y_pred) times the number of rows
SquaredError(y_true, y_pred) ==
    SumSeq([i \in 1..Len(y_true) |-> (y_true[i] - y_pred[i]) * (y_true[i] - y_pred[i])])

-----------------------------------------------------------------------------
(* The Feature Catalog (SMILESHashes.hash_df): one entry per fingerprint    *)
(* column.  An annotation that has not been written is None.               *)

NewHashDf(n) ==
    [j \in 1..n |-> [selected |-> None, above_threshold_occurance |-> None,
                     weight |-> None, norm_weight |-> None]]

\* hash_df[column] = value, a scalar written to every row
AssignColumn(hash_df, column, value) ==
    [j \in 1..Len(hash_df) |-> [hash_df[j] EXCEPT ![column] = Some(value)]]

\* the catalog's `selected` flags as a boolean vector (unwritten counts as
\* selected: nothing has excluded the feature yet)
SelectedFlags(hash_df) ==
    [j \in 1..Len(hash_df) |-> hash_df[j].selected # Some(FALSE)]

\* SMILESHashes.set_regularised_selection(support): the selection mask is
\* written to `selected`, narrowing the set selected so far.
set_regularised_selection(hash_df, support) ==
    [j \in 1..Len(hash_df) |->
        [hash_df[j] EXCEPT !.selected = Some(SelectedFlags(hash_df)[j] /\ support[j])]]

\* SMILESHashes.set_weights(weights, norm_weights): every selected feature
\* receives the entry of each vector at its position among the selected
\* features; the other features keep their annotations.
set_weights(hash_df, weights, norm_weights) ==
    LET sel == [j \in 1..Len(hash_df) |-> hash_df[j].selected = Some(TRUE)]
        at(v, j) == IF Rank(sel, j) <= Len(v) THEN Some(v[Rank(sel, j)]) ELSE None
    IN  [j \in 1..Len(hash_df) |->
            IF sel[j]
            THEN [hash_df[j] EXCEPT !.weight = at(weights, j),
                                    !.norm_weight = at(norm_weights, j)]
            ELSE hash_df[j]]

-----------------------------------------------------------------------------
(* Exceptions, by Python type and message. *)

NoError == "none"

\* `self.train_fps.size[0]`: ndarray.size is an int
TypeErrorNotSubscriptable == "TypeError: 'int' object is not subscriptable"

\* reading self.selector before elastic_feature_select has assigned it
AttributeErrorSelector ==
    "AttributeError: 'LinearECFPModel' object has no attribute 'selector'"

\* reading self.model before ridge_model_train_test has assigned it
AttributeErrorModel ==
    "AttributeError: 'LinearECFPModel' object has no attribute 'model'"

\* raised by an estimator of the pipeline that has not been fitted
NotFittedError == "NotFittedError: This instance is not fitted yet."

\* raised by predict
ValueErrorMustFit == "ValueError: Must first fit model."

\* raised by the fitted scaler when the input has another number of columns
ValueErrorFeatureCount == "ValueError: X has a different number of features than StandardScaler was fitted with"

\* raised by mean_squared_error when the two vectors differ in length
ValueErrorInconsistentLength == "ValueError: Found input variables with inconsistent numbers of samples"

\* raised by the ridge when its coefficients do not fit the selected columns
ValueErrorShape == "ValueError: shapes not aligned"

\* raised from inside Pipeline.fit
FitFailed == "raised by Pipeline.fit"

\* the outcome of a call: the instance afterwards, the exception raised and
\* the value returned (None when the call raised)
Outcome(inst, exc, val) == [self |-> inst, exc |-> exc, val |-> val]

-----------------------------------------------------------------------------
(* RidgeResults *)

RidgeResults(best_rmse, alpha, coefs, test_rmse) ==
    [best_rmse |-> best_rmse, alpha |-> alpha, coefs |-> coefs, test_rmse |-> test_rmse]

\* RidgeResults.get_unnormed_contribs(scaler): scaler.inverse_transform(coefs).
\* The caller passes the selector, whose inverse_transform puts the
\* coefficients back into the original feature space.
get_unnormed_contribs(results, selector_support) ==
    SelectorInverseTransform(selector_support, results.coefs)

-----------------------------------------------------------------------------
(* LinearECFPModel *)

\* __init__
NewLinearECFPModel(hash_df, train_fps, train_targets, test_fps, test_targets) ==
    [hash_df |-> hash_df,
     train_fps |-> train_fps, train_targets |-> train_targets,
     test_fps |-> test_fps, test_targets |-> test_targets,
     scaler |-> UnfittedScaler, encv |-> UnfittedEncv, ridge |-> UnfittedRidge,
     selector |-> None, model |-> None, test_predictions |-> None, results |-> None]

\* A threshold is a Python int (den = 1) or a Python float num / den.
IntThreshold(k) == [type |-> "int", num |-> k, den |-> 1]

FloatThreshold(num, den) == [type |-> "float", num |-> num, den |-> den]

\* (train_fps > 0).sum(): the number of nonzero cells of the whole matrix
HasGroupSum(X) ==
    SumSeq([i \in 1..NumRows(X) |->
        Cardinality({j \in 1..NumCols(X) : X[i][j] > 0})])

remove_low_freq_subgraphs(inst, threshold) ==
    IF threshold.type = "float"
    THEN \* line 79: self.train_fps.size[0] raises
         Outcome(inst, TypeErrorNotSubscriptable, None)
    ELSE LET include_group == HasGroupSum(inst.train_fps) > threshold.num
             df1 == AssignColumn(inst.hash_df, "selected", include_group)
             df2 == AssignColumn(df1, "above_threshold_occurance", include_group)
         IN  Outcome([inst EXCEPT !.hash_df = df2], NoError,
                     Some(IF include_group THEN 0 ELSE 1))

\* elastic_feature_select writing the mask over `selected` directly
elastic_feature_select_overwrite(inst) ==
    LET scaler == StandardScalerFit(inst.train_fps)
        encv == ElasticNetCVFit(inst.train_fps, inst.train_targets)
        support == SelectFromModelSupport(encv)
    IN  Outcome([inst EXCEPT !.scaler = scaler, !.encv = encv,
                             !.selector = Some("SelectFromModel(encv)"),
                             !.hash_df = [j \in 1..Len(inst.hash_df) |->
                                 [inst.hash_df[j] EXCEPT !.selected = Some(support[j])]]],
                NoError, Some(Len(support) - CountTrue(support)))

\* elastic_feature_select fitting the selector on the held-out data
elastic_feature_select_on_test(inst) ==
    LET scaler == StandardScalerFit(inst.test_fps)
        encv == ElasticNetCVFit(inst.test_fps, inst.test_targets)
        support == SelectFromModelSupport(encv)
    IN  Outcome([inst EXCEPT !.scaler = scaler, !.encv = encv,
                             !.selector = Some("SelectFromModel(encv)"),
                             !.hash_df = set_regularised_selection(inst.hash_df, support)],
                NoError, Some(Len(support) - CountTrue(support)))

elastic_feature_select(inst) ==
    LET scaler == StandardScalerFit(inst.train_fps)
        encv == ElasticNetCVFit(inst.train_fps, inst.train_targets)
        support == SelectFromModelSupport(encv)
    IN  Outcome([inst EXCEPT !.scaler = scaler, !.encv = encv,
                             !.selector = Some("SelectFromModel(encv)"),
                             !.hash_df = set_regularised_selection(inst.hash_df, support)],
                NoError, Some(Len(support) - CountTrue(support)))

ridge_model_train_test(inst, fit_raises) ==
    IF inst.selector = None
    THEN Outcome(inst, AttributeErrorSelector, None)
    ELSE
    LET s1 == [inst EXCEPT !.model = Some("Pipeline(scaler, selector, ridge)")]
        support == SelectFromModelSupport(inst.encv)
        s2 == [s1 EXCEPT !.scaler = StandardScalerFit(inst.train_fps),
                         !.ridge = RidgeCVFit(SelectorTransform(support, inst.train_fps),
                                              inst.train_targets)]
        preds == PipelineDecision(s2.scaler, support, s2.ridge, inst.test_fps)
        s3 == [s2 EXCEPT !.test_predictions = Some(preds)]
        results == RidgeResults(s2.ridge.best_score_, s2.ridge.alpha_, s2.ridge.coef_,
                                SquaredError(inst.test_targets, preds))
        s4 == [s3 EXCEPT !.results = Some(results)]
        s5 == [s4 EXCEPT !.hash_df =
                  set_weights(s4.hash_df, results.coefs,
                              get_unnormed_contribs(results, support))]
    IN  IF fit_raises THEN Outcome(s1, FitFailed, None)
        ELSE IF NumCols(inst.test_fps) # s2.scaler.n_features_in_
             THEN Outcome(s2, ValueErrorFeatureCount, None)
        ELSE IF Len(inst.test_targets) # Len(preds)
             THEN Outcome(s3, ValueErrorInconsistentLength, None)
        ELSE Outcome(s5, NoError, Some(results))

\* self.model.predict(fps) with a scaler that rejects only an input narrower
\* than the matrix it was fitted with
ModelPredict_accepts_wider(inst, fps) ==
    IF inst.model = None
    THEN Outcome(inst, AttributeErrorModel, None)
    ELSE IF ~inst.scaler.fitted
    THEN Outcome(inst, NotFittedError, None)
    ELSE IF NumCols(fps) < inst.scaler.n_features_in_
    THEN Outcome(inst, ValueErrorFeatureCount, None)
    ELSE IF ~inst.ridge.fitted
    THEN Outcome(inst, NotFittedError, None)
    ELSE IF Len(inst.ridge.coef_) # CountTrue(SelectFromModelSupport(inst.encv))
    THEN Outcome(inst, ValueErrorShape, None)
    ELSE Outcome(inst, NoError,
                 Some(PipelineDecision(inst.scaler, SelectFromModelSupport(inst.encv),
                                       inst.ridge, fps)))

\* self.model.predict(fps), as Pipeline.predict runs it: the scaler checks
\* that it is fitted and that fps has the column count it was fitted with,
\* the selector keeps its columns, the ridge checks that it is fitted.
ModelPredict(inst, fps) ==
    IF inst.model = None
    THEN Outcome(inst, AttributeErrorModel, None)
    ELSE IF ~inst.scaler.fitted
    THEN Outcome(inst, NotFittedError, None)
    ELSE IF NumCols(fps) # inst.scaler.n_features_in_
    THEN Outcome(inst, ValueErrorFeatureCount, None)
    ELSE IF ~inst.ridge.fitted
    THEN Outcome(inst, NotFittedError, None)
    ELSE IF Len(inst.ridge.coef_) # CountTrue(SelectFromModelSupport(inst.encv))
    THEN Outcome(inst, ValueErrorShape, None)
    ELSE Outcome(inst, NoError,
                 Some(PipelineDecision(inst.scaler, SelectFromModelSupport(inst.encv),
                                       inst.ridge, fps)))

\* `except AttributeError`: scikit-learn's NotFittedError is a ValueError and
\* an AttributeError
IsAttributeError(exc) == exc \in {AttributeErrorModel, NotFittedError}

\* predict without the try/except
predict_uncaught(inst, fps) == ModelPredict(inst, fps)

predict(inst, fps) ==
    LET out == ModelPredict(inst, fps)
    IN  IF IsAttributeError(out.exc)
        THEN Outcome(inst, ValueErrorMustFit, None)
        ELSE out

-----------------------------------------------------------------------------
(* The inputs the model draws from. *)

\* Training matrices: column j is nonzero (with count v) in its first cnt[j]
\* rows, the columns ordered by falling occurrence count, so every
\* per-feature occurrence count 0..NRows occurs.
TrainMatrices ==
    {[i \in 1..NRows |-> [j \in 1..NCols |-> IF i <= cnt[j] THEN v ELSE 0]] :
        cnt \in {c \in [1..NCols -> 0..NRows] :
                    \A j \in 1..(NCols - 1) : c[j] >= c[j + 1]},
        v \in 1..MaxCount}

\* Training targets, one per row
TrainTargets ==
    {[i \in 1..NRows |-> i], [i \in 1..NRows |-> IF i = 1 THEN 1 ELSE 0]}

\* Test sets (matrix and targets): one row of zeros; NRows rows whose
\* column j is nonzero in its last j rows; one row with a column less than
\* the training matrix; one row with a target too many.
TestSets ==
    {[fps |-> <<[j \in 1..NCols |-> 0]>>, targets |-> <<1>>],
     [fps |-> [i \in 1..NRows |-> [j \in 1..NCols |-> IF i + j > NRows THEN MaxCount ELSE 0]],
      targets |-> [i \in 1..NRows |-> i]],
     [fps |-> <<[j \in 1..(NCols - 1) |-> MaxCount]>>, targets |-> <<1>>],
     [fps |-> <<[j \in 1..NCols |-> MaxCount]>>, targets |-> <<1, 0>>]}

\* Thresholds: the ints -1..MaxThreshold and floats below, in and above [0,1]
Thresholds ==
    {IntThreshold(k) : k \in -1..MaxThreshold}
      \cup {FloatThreshold(num, 2) : num \in {-1, 1, 3}}

DropLastColumn(m) == [i \in 1..NumRows(m) |-> SubSeq(m[i], 1, NumCols(m) - 1)]

AppendZeroColumn(m) == [i \in 1..NumRows(m) |-> Append(m[i], 0)]

\* Inputs of predict: one or NRows rows, with NCols - 1, NCols or NCols + 1 columns
PredictInputs(inst) ==
    {inst.train_fps, <<inst.train_fps[1]>>, DropLastColumn(inst.train_fps),
     AppendZeroColumn(inst.train_fps)}

-----------------------------------------------------------------------------
(* The state machine: one pipeline instance and the calls made on it.       *)
(* ret is the outcome of the last call; calls records which stages have     *)
(* run.                                                                     *)

NoCall == [op |-> "none", arg |-> None, exc |-> NoError, val |-> None]

Return(op, arg, out) == [op |-> op, arg |-> arg, exc |-> out.exc, val |-> out.val]

NoCalls == [select_completed |-> FALSE, ridge_invoked |-> FALSE,
            ridge_completed |-> FALSE, stale |-> FALSE]

Init ==
    /\ \E X \in TrainMatrices, y \in TrainTargets, test \in TestSets :
          self = NewLinearECFPModel(NewHashDf(NCols), X, y, test.fps, test.targets)
    /\ ret = NoCall
    /\ calls = NoCalls
    /\ twin = None
    /\ twinRet = None

RemoveLowFreqSubgraphs ==
    \E threshold \in Thresholds :
        LET out == remove_low_freq_subgraphs(self, threshold)
        IN  /\ self' = out.self
            /\ ret' = Return("remove_low_freq_subgraphs", Some(threshold), out)
            /\ calls' = IF out.exc = NoError THEN [calls EXCEPT !.stale = TRUE] ELSE calls
            /\ UNCHANGED <<twin, twinRet>>

ElasticFeatureSelect ==
    LET out == elastic_feature_select(self)
    IN  /\ self' = out.self
        /\ ret' = Return("elastic_feature_select", None, out)
        /\ calls' = IF out.exc = NoError
                    THEN [calls EXCEPT !.select_completed = TRUE, !.stale = TRUE]
                    ELSE calls
        /\ UNCHANGED <<twin, twinRet>>

RidgeModelTrainTest ==
    \E fit_raises \in BOOLEAN :
        LET out == ridge_model_train_test(self, fit_raises)
        IN  /\ self' = out.self
            /\ ret' = Return("ridge_model_train_test", None, out)
            /\ calls' = IF out.exc = NoError
                        THEN [calls EXCEPT !.ridge_invoked = TRUE,
                                           !.ridge_completed = TRUE, !.stale = FALSE]
                        ELSE [calls EXCEPT !.ridge_invoked = TRUE]
            /\ UNCHANGED <<twin, twinRet>>

Predict ==
    \E fps \in PredictInputs(self) :
        LET out == predict(self, fps)
        IN  /\ self' = out.self
            /\ ret' = Return("predict", Some(fps), out)
            /\ UNCHANGED <<calls, twin, twinRet>>

Next ==
    \/ RemoveLowFreqSubgraphs
    \/ ElasticFeatureSelect
    \/ RidgeModelTrainTest
    \/ Predict

Spec == Init /\ [][Next]_vars

-----------------------------------------------------------------------------
(* Two pipeline instances built on the same training data and the same      *)
(* (fresh) catalog contents, with different held-out data of the training   *)
(* column count.                                                            *)

InitTwin ==
    /\ \E X \in TrainMatrices, y \in TrainTargets, a \in TestSets, b \in TestSets :
          /\ a # b
          /\ NumCols(a.fps) = NCols
          /\ NumCols(b.fps) = NCols
          /\ self = NewLinearECFPModel(NewHashDf(NCols), X, y, a.fps, a.targets)
          /\ twin = NewLinearECFPModel(NewHashDf(NCols), X, y, b.fps, b.targets)
    /\ ret = NoCall
    /\ calls = NoCalls
    /\ twinRet = NoCall

TwinElasticFeatureSelect ==
    LET out == elastic_feature_select(twin)
    IN  /\ twin' = out.self
        /\ twinRet' = Return("elastic_feature_select", None, out)
        /\ UNCHANGED <<self, ret, calls>>

NextTwin ==
    \/ RemoveLowFreqSubgraphs
    \/ ElasticFeatureSelect
    \/ TwinElasticFeatureSelect

SpecTwin == InitTwin /\ [][NextTwin]_vars

-----------------------------------------------------------------------------
(* The properties checked. *)

\* The error kinds the specification names that no statement of the code
\* raises
SequencingError == "SequencingError"

InvalidThreshold == "InvalidThreshold"

\* the selector's mask, as predict and the ridge fit read it
Support(inst) == SelectFromModelSupport(inst.encv)

\* the number of training rows in which feature j is nonzero
OccurrenceCount(X, j) == Cardinality({i \in 1..NumRows(X) : X[i][j] > 0})

NoWeights(hash_df) ==
    \A j \in 1..Len(hash_df) : hash_df[j].weight = None /\ hash_df[j].norm_weight = None

C2_RidgeBeforeSelectIsSequencingError ==
    (ret.op = "ridge_model_train_test" /\ ~calls.select_completed)
        => (ret.exc = SequencingError /\ ret.val = None /\ NoWeights(self.hash_df))

\* C3: remove_low_freq_subgraphs(k), k >= 0 an integer, marks feature j
\* above_threshold iff its own occurrence count exceeds k, sets selected
\* equal to above_threshold, and returns the number of features below.
C3_FilterIsPerFeature ==
    (ret.op = "remove_low_freq_subgraphs" /\ Get(ret.arg).type = "int"
        /\ Get(ret.arg).num >= 0)
    => /\ ret.exc = NoError
       /\ \A j \in 1..NCols :
            /\ self.hash_df[j].above_threshold_occurance
                 = Some(OccurrenceCount(self.train_fps, j) > Get(ret.arg).num)
            /\ self.hash_df[j].selected = self.hash_df[j].above_threshold_occurance
       /\ ret.val = Some(Cardinality({j \in 1..NCols :
                        ~(OccurrenceCount(self.train_fps, j) > Get(ret.arg).num)}))

\* C4: remove_low_freq_subgraphs(t) with a float t in [0,1] completes, and
\* leaves the catalog and returns the value that the integer threshold
\* floor(t * number of rows) gives.
C4_FractionIsFloorOfRows ==
    (ret.op = "remove_low_freq_subgraphs" /\ Get(ret.arg).type = "float"
        /\ 0 <= Get(ret.arg).num /\ Get(ret.arg).num <= Get(ret.arg).den)
    => LET k == (Get(ret.arg).num * NumRows(self.train_fps)) \div Get(ret.arg).den
           byCount == remove_low_freq_subgraphs(self, IntThreshold(k))
       IN  /\ ret.exc = NoError
           /\ self.hash_df = byCount.self.hash_df
           /\ ret.val = byCount.val

\* C5: remove_low_freq_subgraphs with a negative threshold, or a float
\* threshold above 1, fails with InvalidThreshold and leaves the catalog's
\* annotations as they were.
C5_BadThresholdIsRejected ==
    [][(/\ ret'.op = "remove_low_freq_subgraphs"
        /\ \/ Get(ret'.arg).num < 0
           \/ Get(ret'.arg).type = "float" /\ Get(ret'.arg).num > Get(ret'.arg).den)
       => (ret'.exc = InvalidThreshold /\ self'.hash_df = self.hash_df)]_vars

\* C6: once a ridge_model_train_test has completed, predict(fps) raises the
\* scaler's feature-count ValueError and returns nothing when fps has another
\* column count than the training matrix, and returns one prediction per row
\* of fps when the column counts agree.
C6_PredictChecksColumnCount ==
    (ret.op = "predict" /\ calls.ridge_completed)
    => IF NumCols(Get(ret.arg)) # NumCols(self.train_fps)
       THEN ret.exc = ValueErrorFeatureCount /\ ret.val = None
       ELSE ret.exc = NoError /\ ret.val # None
              /\ Len(Get(ret.val)) = NumRows(Get(ret.arg))

\* predict in state Fitted with too many columns
C6_Witness ==
    /\ ret.op = "predict"
    /\ calls.ridge_completed
    /\ NumCols(Get(ret.arg)) > NumCols(self.train_fps)
    /\ ret.exc = ValueErrorFeatureCount

C8_RerunInvalidatesFit ==
    /\ (ret.op = "predict" /\ calls.ridge_completed /\ calls.stale)
          => (ret.exc = ValueErrorMustFit /\ ret.val = None)
    /\ (ret.op = "predict" /\ ret.val # None)
          => Len(self.ridge.coef_) = CountTrue(Support(self))

\* c is the coefficient w with the standardization of a feature of variance
\* var / n^2 reversed: c = w / scale or c = w * scale
Unstandardized(c, w, var, n) ==
    \/ c * c * var = w * w * n * n
    \/ c * c * n * n = w * w * var

\* C9: after a successful ridge_model_train_test every feature the selector
\* kept carries its ridge coefficient and that coefficient with the fitted
\* scaler's standardization reversed; every other feature carries neither.
C9_WeightsAreUnstandardized ==
    (ret.op = "ridge_model_train_test" /\ ret.exc = NoError)
    => \A j \in 1..NCols :
          IF Support(self)[j]
          THEN /\ self.hash_df[j].weight
                    = Some(self.ridge.coef_[Rank(Support(self), j)])
               /\ self.hash_df[j].norm_weight # None
               /\ Unstandardized(Get(self.hash_df[j].norm_weight),
                                 self.ridge.coef_[Rank(Support(self), j)],
                                 self.scaler.var_[j], self.scaler.n_samples_seen_)
          ELSE self.hash_df[j].weight = None /\ self.hash_df[j].norm_weight = None

\* C10: two instances with the same training data and different held-out
\* data get the same mask and the same return value from
\* elastic_feature_select.
C10_SelectionIgnoresTestData ==
    (ret.op = "elastic_feature_select" /\ twinRet.op = "elastic_feature_select")
    => /\ ret.val = twinRet.val
       /\ ret.exc = twinRet.exc
       /\ Support(self) = Support(twin)

\* both instances have selected, and the mask excludes a feature
C10_Witness ==
    /\ ret.op = "elastic_feature_select"
    /\ twinRet.op = "elastic_feature_select"
    /\ self.test_fps # twin.test_fps
    /\ ret.val # Some(0)

\* every feature is marked not above threshold
AllBelowThreshold(hash_df) ==
    \A j \in 1..Len(hash_df) : hash_df[j].above_threshold_occurance = Some(FALSE)

\* C11 (the filter): remove_low_freq_subgraphs with an integer threshold at
\* or above the number of training rows completes and marks every feature
\* not above threshold.
C11_FilterAtSampleCountExcludesAll ==
    (ret.op = "remove_low_freq_subgraphs" /\ Get(ret.arg).type = "int"
        /\ Get(ret.arg).num >= NumRows(self.train_fps))
    => (ret.exc = NoError /\ AllBelowThreshold(self.hash_df))

\* C11 (the later stages): with every feature excluded by the filter,
\* elastic_feature_select and ridge_model_train_test do not complete as a
\* fit on excluded features: they raise, or keep no excluded feature.
C11_LaterStagesSurfaceEmptySelection ==
    (ret.op \in {"elastic_feature_select", "ridge_model_train_test"}
        /\ AllBelowThreshold(self.hash_df))
    => \/ ret.exc # NoError
       \/ \A j \in 1..NCols : ~Support(self)[j]

\* C11: a threshold at or above the sample count excludes every feature
\* without an error, and the later stages surface the empty selection
\* instead of fitting on the excluded features.
C11_ThresholdAtSampleCount ==
    C11_FilterAtSampleCountExcludesAll /\ C11_LaterStagesSurfaceEmptySelection

\* the exceptions ridge_model_train_test raises after it has begun to
\* assign its outputs (during the fit or the held-out evaluation)
PartwayFailures ==
    {FitFailed, ValueErrorFeatureCount, ValueErrorInconsistentLength}

\* predict returns predictions for no input
ExplicitlyInvalid(inst) ==
    \A fps \in PredictInputs(inst) : predict(inst, fps).val = None

\* the stored results describe the ridge that predict uses
ResultsDescribeModel(inst) ==
    (inst.results # None /\ inst.ridge.fitted)
        => Get(inst.results).coefs = inst.ridge.coef_

\* C12: a ridge_model_train_test that fails partway returns no RidgeResults
\* and leaves the pipeline as it was before the call or in a state in which
\* predict returns no predictions, with the stored results (if any)
\* describing the model predict uses.
C12_PartialFitLeavesPriorOrInvalidState ==
    [][(ret'.op = "ridge_model_train_test" /\ ret'.exc \in PartwayFailures)
       => /\ ret'.val = None
          /\ self' = self \/ ExplicitlyInvalid(self')
          /\ ResultsDescribeModel(self')]_vars

=============================================================================
